---- MODULE Spec2Model ----
(***************************************************************************)
(* Model of lib/util/log.js: the leveled logger Log, its shared level      *)
(* table, and the operations Log(), createLog, setLevels, log, the four    *)
(* convenience wrappers, throw and the static getLevelByName.              *)
(*                                                                         *)
(* JavaScript values are records [t, n, s]: t is the type tag, n the       *)
(* number (when t = "num") and s the text (when t = "str") as a sequence   *)
(* of one-character strings, so that toUpperCase, isNaN and parseInt are   *)
(* computed character by character as the runtime computes them.           *)
(*                                                                         *)
(* Module names are drawn from the names the constructor documents         *)
(* (log.js line 18); a module name that is also a member of                *)
(* Object.prototype ("constructor", "toString") and a table key spelled    *)
(* "undefined" are outside the model.  The timestamp of a message's prefix *)
(* is left out of the recorded sink call.                                  *)
(***************************************************************************)
EXTENDS Integers, Sequences, FiniteSets, TLC

VARIABLES heap, logs, DEFAULT_LOG_LEVEL, last

vars == <<heap, logs, DEFAULT_LOG_LEVEL, last>>

(***************************************************************************)
(* Bounds of the model.                                                    *)
(***************************************************************************)
MaxLogs == 3
MaxObjects == 2
MaxEntries == 2

(***************************************************************************)
(* JavaScript values.                                                      *)
(***************************************************************************)
Str(s) == [t |-> "str", n |-> 0, s |-> s]
Num(n) == [t |-> "num", n |-> n, s |-> <<>>]
NaN == [t |-> "nan", n |-> 0, s |-> <<>>]
Undefined == [t |-> "undef", n |-> 0, s |-> <<>>]

LowerAlpha == <<"a","b","c","d","e","f","g","h","i","j","k","l","m",
                "n","o","p","q","r","s","t","u","v","w","x","y","z">>
UpperAlpha == <<"A","B","C","D","E","F","G","H","I","J","K","L","M",
                "N","O","P","Q","R","S","T","U","V","W","X","Y","Z">>
Digits == <<"0","1","2","3","4","5","6","7","8","9">>

\* The upper-case letter of each lower-case letter, the value of each digit.
UpperOf == [c \in {LowerAlpha[i] : i \in 1..26} |->
               UpperAlpha[CHOOSE i \in 1..26 : LowerAlpha[i] = c]]
ValueOf == [c \in {Digits[i] : i \in 1..10} |-> (CHOOSE i \in 1..10 : Digits[i] = c) - 1]

IsLower(c) == c \in DOMAIN UpperOf
IsDigit(c) == c \in DOMAIN ValueOf
DigitVal(c) == ValueOf[c]

\* String.prototype.toUpperCase, one character.
UpperChar(c) == IF IsLower(c) THEN UpperOf[c] ELSE c

\* String.prototype.toUpperCase.
toUpperCase(s) == [i \in 1..Len(s) |-> UpperChar(s[i])]

\* The value of a sequence of decimal digits.
RECURSIVE DigitsValue(_)
DigitsValue(s) == IF s = <<>> THEN 0
                  ELSE 10 * DigitsValue(SubSeq(s, 1, Len(s) - 1)) + DigitVal(s[Len(s)])

HasSign(s) == Len(s) > 0 /\ s[1] \in {"-", "+"}
Unsigned(s) == IF HasSign(s) THEN Tail(s) ELSE s
Signed(s, v) == IF HasSign(s) /\ s[1] = "-" THEN 0 - v ELSE v

\* An optional sign and one or more decimal digits.
IsDecimalLiteral(s) == /\ Len(Unsigned(s)) > 0
                       /\ \A i \in 1..Len(Unsigned(s)) : IsDigit(Unsigned(s)[i])

\* ToNumber of a string, for strings with no white space, ".", exponent,
\* radix prefix or "Infinity": the empty string is 0, a decimal literal is
\* its value, anything else is NaN.
StringToNumber(s) == IF s = <<>> THEN Num(0)
                     ELSE IF IsDecimalLiteral(s) THEN Num(Signed(s, DigitsValue(Unsigned(s))))
                     ELSE NaN

\* ToNumber.
ToNumber(v) == CASE v.t = "num" -> v
                 [] v.t = "str" -> StringToNumber(v.s)
                 [] OTHER -> NaN

\* The global isNaN(v).
isNaN(v) == ToNumber(v).t = "nan"

\* The longest prefix of s made of decimal digits.
RECURSIVE DigitPrefix(_)
DigitPrefix(s) == IF s = <<>> \/ ~IsDigit(s[1]) THEN <<>>
                  ELSE <<s[1]>> \o DigitPrefix(Tail(s))

\* parseInt(s, 10) of a string: optional sign, then the leading digits;
\* NaN when there is none.
ParseIntString(s) == IF DigitPrefix(Unsigned(s)) = <<>> THEN NaN
                     ELSE Num(Signed(s, DigitsValue(DigitPrefix(Unsigned(s)))))

\* parseInt(v, 10): v is converted to a string first; the integers of the
\* model print as decimal literals and parse back to themselves.
parseInt(v) == CASE v.t = "num" -> v
                 [] v.t = "str" -> ParseIntString(v.s)
                 [] OTHER -> NaN

\* ToBoolean.
Truthy(v) == CASE v.t = "str" -> v.s # <<>>
               [] v.t = "num" -> v.n # 0
               [] OTHER -> FALSE

(***************************************************************************)
(* Errors and the outcome of a call.                                       *)
(***************************************************************************)
NoError == [name |-> "", message |-> "", hasClone |-> FALSE, isClone |-> FALSE]

\* E.INVALID_ARGUMENT.clone(message), of constants.twilioErrors.
INVALID_ARGUMENT(message) ==
    [name |-> "INVALID_ARGUMENT", message |-> message, hasClone |-> TRUE, isClone |-> TRUE]

\* The runtime's TypeError for a call of a method the value does not have.
TypeError(message) ==
    [name |-> "TypeError", message |-> message, hasClone |-> FALSE, isClone |-> FALSE]

Return(v) == [kind |-> "return", val |-> v, err |-> NoError]
Throw(e) == [kind |-> "throw", val |-> Undefined, err |-> e]

(***************************************************************************)
(* The constants of Log.                                                   *)
(***************************************************************************)
Log_DEBUG == 0
Log_INFO == 1
Log_WARN == 2
Log_ERROR == 3
Log_OFF == 4

S_DEBUG == <<"D","E","B","U","G">>
S_INFO == <<"I","N","F","O">>
S_WARN == <<"W","A","R","N">>
S_ERROR == <<"E","R","R","O","R">>
S_OFF == <<"O","F","F">>

\* Log._levels: the descriptor at index rank + 1 is that of the rank.
Log_levels == << [name |-> S_DEBUG, logFn |-> "console.log"],
                 [name |-> S_INFO,  logFn |-> "console.info"],
                 [name |-> S_WARN,  logFn |-> "console.warn"],
                 [name |-> S_ERROR, logFn |-> "console.error"],
                 [name |-> S_OFF,   logFn |-> "noop"] >>

LOG_LEVEL_NAMES == [i \in 1..Len(Log_levels) |-> Log_levels[i].name]

LOG_LEVELS_SET == {LOG_LEVEL_NAMES[i] : i \in 1..Len(LOG_LEVEL_NAMES)}

INVALID_LOG_LEVEL_MESSAGE == "Log level must be one of: [DEBUG,INFO,WARN,ERROR,OFF]"

\* Log[name] for one of the five names.
LogConstant(name) == CASE name = S_DEBUG -> Log_DEBUG
                       [] name = S_INFO -> Log_INFO
                       [] name = S_WARN -> Log_WARN
                       [] name = S_ERROR -> Log_ERROR
                       [] name = S_OFF -> Log_OFF

\* validateLogLevel(level), level a string.
validateLogLevel(level) ==
    IF level \notin LOG_LEVELS_SET
    THEN Throw(INVALID_ARGUMENT(INVALID_LOG_LEVEL_MESSAGE))
    ELSE Return(Undefined)

\* value.toUpperCase(): a TypeError for a value that is no string.
CallToUpperCase(v) ==
    IF v.t = "str" THEN Return(Str(toUpperCase(v.s)))
    ELSE Throw(TypeError("toUpperCase is not a function"))

\* ValidateEntry with the numeric levels getLevelByName takes let through.
ValidateEntry_AcceptsNumeric(v) ==
    IF ~isNaN(v) THEN Return(Undefined)
    ELSE LET upper == CallToUpperCase(v)
         IN IF upper.kind = "throw" THEN upper ELSE validateLogLevel(upper.val.s)

\* The body of validateLogLevels' forEach callback for one value.
ValidateEntry(v) ==
    LET upper == CallToUpperCase(v)
    IN IF upper.kind = "throw" THEN upper ELSE validateLogLevel(upper.val.s)

(***************************************************************************)
(* An object used as a level table is the sequence of its own entries      *)
(* <<key, value>> in insertion order, the order of Object.keys.            *)
(***************************************************************************)
HasOwn(o, k) == \E i \in 1..Len(o) : o[i][1] = k

\* o[k]: the entry's value, undefined when there is none.
Get(o, k) == IF HasOwn(o, k) THEN o[CHOOSE i \in 1..Len(o) : o[i][1] = k][2]
             ELSE Undefined

\* o[k] = v.
Put(o, k, v) == IF HasOwn(o, k)
                THEN [i \in 1..Len(o) |-> IF o[i][1] = k THEN <<k, v>> ELSE o[i]]
                ELSE Append(o, <<k, v>>)

\* Object.assign(target, source).
RECURSIVE ObjectAssign(_, _)
ObjectAssign(target, source) ==
    IF source = <<>> THEN target
    ELSE ObjectAssign(Put(target, source[1][1], source[1][2]), Tail(source))

\* validateLogLevels that looks at the first entry alone.
validateLogLevels_FirstOnly(levels) ==
    IF levels = <<>> THEN Return(Undefined) ELSE ValidateEntry(levels[1][2])

\* validateLogLevels(levels): the first entry that fails ends the loop.
RECURSIVE validateLogLevels(_)
validateLogLevels(levels) ==
    IF levels = <<>> THEN Return(Undefined)
    ELSE LET first == ValidateEntry(levels[1][2])
         IN IF first.kind = "throw" THEN first ELSE validateLogLevels(Tail(levels))

\* Log.getLevelByName(name).
getLevelByName(name) ==
    IF ~isNaN(name) THEN Return(parseInt(name))
    ELSE LET upper == CallToUpperCase(name)
         IN IF upper.kind = "throw" THEN upper
            ELSE LET valid == validateLogLevel(upper.val.s)
                 IN IF valid.kind = "throw" THEN valid
                    ELSE Return(Num(LogConstant(upper.val.s)))

(***************************************************************************)
(* The inputs of the model.                                                *)
(***************************************************************************)
ModuleNames == {"media", "signaling"}

\* The moduleName argument: a documented name, undefined, or a number
\* (a truthy value that is no string); k is the text of a string.
ModuleName(k) == [t |-> "str", k |-> k]
NoModuleName == [t |-> "undef", k |-> ""]
NumberAsModuleName == [t |-> "num", k |-> "7"]
ModuleNameArgs == {ModuleName("media"), NoModuleName, NumberAsModuleName}

\* The component argument: an object with a toString(), or undefined.
Component(name) == [t |-> "obj", name |-> name]
NoComponent == [t |-> "undef", name |-> ""]
ComponentArgs == {Component("Room"), NoComponent}

S_debug == <<"d","e","b","u","g">>
S_InFo == <<"I","n","F","o">>
S_Off == <<"O","f","f">>
S_warn == <<"w","a","r","n">>
S_bogus == <<"b","o","g","u","s">>
S_99 == <<"9","9">>

\* The values a caller puts in a LogLevels object: a level name (in mixed
\* case), a string that is no level name, and an out-of-range numeric level
\* as a string and as a number.
LevelValues == {Str(S_Off), Str(S_bogus), Str(S_99), Num(99)}

\* The LogLevels objects of at most n entries, with distinct keys.
RECURSIVE ObjectsOfSize(_)
ObjectsOfSize(n) ==
    IF n = 0 THEN {<<>>}
    ELSE {Append(o, <<k, v>>) : o \in ObjectsOfSize(n - 1), k \in ModuleNames, v \in LevelValues}

LevelsInputs ==
    {o \in UNION {ObjectsOfSize(n) : n \in 0..MaxEntries} :
        \A i, j \in 1..Len(o) : i # j => o[i][1] # o[j][1]}

\* The logLevel argument of log(): the five ranks and two numbers that
\* index no descriptor.
RankInputs == {0 - 1, Log_DEBUG, Log_INFO, Log_WARN, Log_ERROR, Log_OFF, 99}

\* The name argument of getLevelByName.
NameInputs == {Str(S_debug), Str(S_DEBUG), Str(S_Off), Str(S_warn), Str(S_InFo),
               Str(S_ERROR), Str(S_bogus), Str(<<>>), Str(S_99), Str(<<"-","1">>),
               Str(<<"2">>), Num(2), Num(99), Num(0 - 1)}

\* The error argument of throw: a TwilioError, which has clone(), and a
\* plain Error, which has not.
TwilioError == [name |-> "TwilioError", message |-> "original", hasClone |-> TRUE, isClone |-> FALSE]
PlainError == [name |-> "Error", message |-> "original", hasClone |-> FALSE, isClone |-> FALSE]
ErrorInputs == {TwilioError, PlainError}

\* error.clone(customMessage).
Clone(error, customMessage) == [error EXCEPT !.message = customMessage, !.isClone = TRUE]

\* The values the default level of the constants module may have: a level
\* name.
DefaultLevels == {Str(S_warn), Str(S_ERROR)}

(***************************************************************************)
(* The state.  heap holds the level-table objects the instances refer to;  *)
(* logs holds the Log instances: moduleName and the reference _logLevels   *)
(* are what the constructor captures, name is component.toString(), and    *)
(* root is the instance that createLog calls lead back to.                 *)
(* DEFAULT_LOG_LEVEL is the default the module reads from the constants    *)
(* module when it is loaded.  last is the call the caller has just made:   *)
(* its arguments, its outcome and the sink calls it made.                  *)
(***************************************************************************)
LogRef(i) == [t |-> "log", n |-> i, s |-> <<>>]

TextMessage == [kind |-> "text", err |-> NoError]
ErrorMessage(e) == [kind |-> "error", err |-> e]

NoArg == [kind |-> "none", ref |-> 0, literal |-> <<>>]
ExistingArg(r) == [kind |-> "existing", ref |-> r, literal |-> <<>>]
LiteralArg(o) == [kind |-> "literal", ref |-> 0, literal |-> o]

NoCall == [op |-> "", inst |-> 0, moduleName |-> NoModuleName, component |-> NoComponent,
           arg |-> NoArg, levels |-> <<>>, rank |-> 0, name |-> Undefined,
           error |-> NoError, result |-> Return(Undefined), calls |-> <<>>]

Init == /\ heap = <<>>
        /\ logs = <<>>
        /\ DEFAULT_LOG_LEVEL \in DefaultLevels
        /\ last = NoCall

\* ToBoolean of the moduleName argument.
TruthyModuleName(moduleName) == CASE moduleName.t = "str" -> moduleName.k # ""
                                  [] moduleName.t = "num" -> TRUE
                                  [] OTHER -> FALSE

\* The property key a moduleName is converted to in logLevels[moduleName].
PropertyKey(moduleName) == IF moduleName.t = "undef" THEN "undefined" ELSE moduleName.k

\* The constructor without its check of component.
Log_NoComponentCheck(moduleName, component, logLevels) ==
    IF moduleName.t # "str" /\ TruthyModuleName(moduleName)
    THEN Throw(INVALID_ARGUMENT("module name is not a string"))
    ELSE validateLogLevels(logLevels)

\* The constructor's checks, lines 27-41, on the level table it will keep.
Log(moduleName, component, logLevels) ==
    IF moduleName.t # "str" /\ TruthyModuleName(moduleName)
    THEN Throw(INVALID_ARGUMENT("module name is not a string"))
    ELSE IF component.t = "undef"
    THEN Throw(INVALID_ARGUMENT("component is required"))
    ELSE validateLogLevels(logLevels)

\* The getter reading logLevels.moduleName, the property spelled
\* "moduleName", for logLevels[moduleName].
logLevel_ReadsFixedKey(logLevels, moduleName) ==
    LET entry == Get(logLevels, "moduleName")
    IN getLevelByName(IF Truthy(entry) THEN entry ELSE DEFAULT_LOG_LEVEL)

\* The logLevel getter of an instance whose table holds logLevels.
logLevel(logLevels, moduleName) ==
    LET entry == Get(logLevels, PropertyKey(moduleName))
    IN getLevelByName(IF Truthy(entry) THEN entry ELSE DEFAULT_LOG_LEVEL)

\* Log._levels[logLevel] is a descriptor.
HasLogSpec(rank) == rank \in 0..(Len(Log_levels) - 1)

\* this.logLevel <= logLevel, for a number or NaN on the left.
LessOrEqual(v, rank) == v.t = "num" /\ v.n <= rank

\* log with the gate this.logLevel < logLevel.
log_StrictGate(self, i, logLevels, rank, message) ==
    IF ~HasLogSpec(rank)
    THEN [result |-> Throw(INVALID_ARGUMENT("Invalid log level")), calls |-> <<>>]
    ELSE LET level == logLevel(logLevels, self.moduleName)
    IN IF level.kind = "throw"
    THEN [result |-> level, calls |-> <<>>]
    ELSE IF level.val.t = "num" /\ level.val.n < rank
    THEN [result |-> Return(LogRef(i)),
          calls |-> << [logFn |-> Log_levels[rank + 1].logFn,
                        levelName |-> Log_levels[rank + 1].name,
                        name |-> self.name,
                        message |-> message] >>]
    ELSE [result |-> Return(LogRef(i)), calls |-> <<>>]

\* log with the gate before the lookup of the descriptor: a suppressed
\* message returns before the rank is looked at.
log_GateFirst(self, i, logLevels, rank, message) ==
    LET level == logLevel(logLevels, self.moduleName)
    IN IF level.kind = "throw"
    THEN [result |-> level, calls |-> <<>>]
    ELSE IF ~LessOrEqual(level.val, rank)
    THEN [result |-> Return(LogRef(i)), calls |-> <<>>]
    ELSE IF ~HasLogSpec(rank)
    THEN [result |-> Throw(INVALID_ARGUMENT("Invalid log level")), calls |-> <<>>]
    ELSE [result |-> Return(LogRef(i)),
          calls |-> << [logFn |-> Log_levels[rank + 1].logFn,
                        levelName |-> Log_levels[rank + 1].name,
                        name |-> self.name,
                        message |-> message] >>]

\* Log.prototype.log of instance i (self): the outcome and the sink calls.
log(self, i, logLevels, rank, message) ==
    IF ~HasLogSpec(rank)
    THEN [result |-> Throw(INVALID_ARGUMENT("Invalid log level")), calls |-> <<>>]
    ELSE LET level == logLevel(logLevels, self.moduleName)
    IN IF level.kind = "throw"
    THEN [result |-> level, calls |-> <<>>]
    ELSE IF LessOrEqual(level.val, rank)
    THEN [result |-> Return(LogRef(i)),
          calls |-> << [logFn |-> Log_levels[rank + 1].logFn,
                        levelName |-> Log_levels[rank + 1].name,
                        name |-> self.name,
                        message |-> message] >>]
    ELSE [result |-> Return(LogRef(i)), calls |-> <<>>]

\* throw raising the error it was given, the clone dropped.
ThrownError_NoClone(error, customMessage) == error

\* The error Log.prototype.throw logs and raises.
ThrownError(error, customMessage) ==
    IF error.hasClone THEN Clone(error, customMessage) ELSE error

(***************************************************************************)
(* The operations.                                                         *)
(***************************************************************************)
\* The caller is between two calls.
Idle == last.op = ""

\* The object a constructor call is given: none, one an instance already
\* holds, or a new literal.
ArgObject(arg) == CASE arg.kind = "existing" -> heap[arg.ref]
                    [] arg.kind = "literal" -> arg.literal
                    [] OTHER -> <<>>

\* new Log(moduleName, component, logLevels)
NewLog(moduleName, component, arg) ==
    LET r == Log(moduleName, component, ArgObject(arg))
        ref == IF arg.kind = "existing" THEN arg.ref ELSE Len(heap) + 1
    IN /\ Idle
       /\ UNCHANGED DEFAULT_LOG_LEVEL
       /\ r.kind = "return" => /\ Len(logs) < MaxLogs
                               /\ arg.kind # "existing" => Len(heap) < MaxObjects
       /\ IF r.kind = "return"
          THEN /\ heap' = IF arg.kind = "existing" THEN heap ELSE Append(heap, ArgObject(arg))
               /\ logs' = Append(logs, [moduleName |-> moduleName, name |-> component.name,
                                        levels |-> ref, root |-> Len(logs) + 1])
          ELSE UNCHANGED <<heap, logs>>
       /\ last' = [NoCall EXCEPT !.op = "Log", !.moduleName = moduleName,
                                 !.component = component, !.arg = arg,
                                 !.levels = ArgObject(arg),
                                 !.result = IF r.kind = "return"
                                            THEN Return(LogRef(Len(logs) + 1)) ELSE r]

\* createLog handing the child a copy of the parent's table.
createLog_Copy(i, moduleName, component) ==
    LET r == Log(moduleName, component, heap[logs[i].levels])
    IN /\ Idle
       /\ UNCHANGED DEFAULT_LOG_LEVEL
       /\ r.kind = "return" => (Len(logs) < MaxLogs /\ Len(heap) < MaxObjects)
       /\ IF r.kind = "return"
          THEN /\ logs' = Append(logs, [moduleName |-> moduleName, name |-> component.name,
                                        levels |-> Len(heap) + 1, root |-> logs[i].root])
               /\ heap' = Append(heap, heap[logs[i].levels])
          ELSE UNCHANGED <<heap, logs>>
       /\ last' = [NoCall EXCEPT !.op = "createLog", !.inst = i, !.moduleName = moduleName,
                                 !.component = component, !.arg = ExistingArg(logs[i].levels),
                                 !.levels = heap[logs[i].levels],
                                 !.result = IF r.kind = "return"
                                            THEN Return(LogRef(Len(logs) + 1)) ELSE r]

\* logs[i].createLog(moduleName, component)
createLog(i, moduleName, component) ==
    LET r == Log(moduleName, component, heap[logs[i].levels])
    IN /\ Idle
       /\ UNCHANGED DEFAULT_LOG_LEVEL
       /\ r.kind = "return" => Len(logs) < MaxLogs
       /\ IF r.kind = "return"
          THEN logs' = Append(logs, [moduleName |-> moduleName, name |-> component.name,
                                     levels |-> logs[i].levels, root |-> logs[i].root])
          ELSE UNCHANGED logs
       /\ UNCHANGED heap
       /\ last' = [NoCall EXCEPT !.op = "createLog", !.inst = i, !.moduleName = moduleName,
                                 !.component = component, !.arg = ExistingArg(logs[i].levels),
                                 !.levels = heap[logs[i].levels],
                                 !.result = IF r.kind = "return"
                                            THEN Return(LogRef(Len(logs) + 1)) ELSE r]

\* logs[i].setLevels(levels)
setLevels(i, levels) ==
    LET r == validateLogLevels(levels)
    IN /\ Idle
       /\ UNCHANGED DEFAULT_LOG_LEVEL
       /\ IF r.kind = "return"
          THEN heap' = [heap EXCEPT ![logs[i].levels] = ObjectAssign(@, levels)]
          ELSE UNCHANGED heap
       /\ UNCHANGED logs
       /\ last' = [NoCall EXCEPT !.op = "setLevels", !.inst = i, !.levels = levels,
                                 !.result = IF r.kind = "return" THEN Return(LogRef(i)) ELSE r]

\* logs[i].log(rank, message)
Call_log(i, rank) ==
    LET r == log(logs[i], i, heap[logs[i].levels], rank, TextMessage)
    IN /\ Idle
       /\ UNCHANGED DEFAULT_LOG_LEVEL
       /\ UNCHANGED <<heap, logs>>
       /\ last' = [NoCall EXCEPT !.op = "log", !.inst = i, !.rank = rank,
                                 !.result = r.result, !.calls = r.calls]

\* The rank a convenience wrapper logs at.
WrapperRank(fn) == CASE fn = "debug" -> Log_DEBUG
                     [] fn = "info" -> Log_INFO
                     [] fn = "warn" -> Log_WARN
                     [] fn = "error" -> Log_ERROR

\* logs[i].debug(...), .info(...), .warn(...), .error(...)
Wrapper(i, fn) ==
    LET r == log(logs[i], i, heap[logs[i].levels], WrapperRank(fn), TextMessage)
    IN /\ Idle
       /\ UNCHANGED DEFAULT_LOG_LEVEL
       /\ UNCHANGED <<heap, logs>>
       /\ last' = [NoCall EXCEPT !.op = fn, !.inst = i, !.rank = WrapperRank(fn),
                                 !.result = r.result, !.calls = r.calls]

\* logs[i].throw(error, customMessage): log's own failure propagates,
\* otherwise the error is raised.
throwFn(i, error) ==
    LET e == ThrownError(error, "custom")
        r == log(logs[i], i, heap[logs[i].levels], Log_ERROR, ErrorMessage(e))
    IN /\ Idle
       /\ UNCHANGED DEFAULT_LOG_LEVEL
       /\ UNCHANGED <<heap, logs>>
       /\ last' = [NoCall EXCEPT !.op = "throw", !.inst = i, !.rank = Log_ERROR,
                                 !.error = error,
                                 !.result = IF r.result.kind = "throw" THEN r.result ELSE Throw(e),
                                 !.calls = r.calls]

\* Log.getLevelByName(name)
Call_getLevelByName(name) ==
    /\ Idle
    /\ UNCHANGED <<heap, logs, DEFAULT_LOG_LEVEL>>
    /\ last' = [NoCall EXCEPT !.op = "getLevelByName", !.name = name,
                              !.result = getLevelByName(name)]

\* The call returns: the caller has taken its outcome and goes on.
Resume == /\ ~Idle
          /\ last' = NoCall
          /\ UNCHANGED <<heap, logs, DEFAULT_LOG_LEVEL>>

\* The logLevels argument of a constructor call.  A call that fails on its
\* module name or component never reads logLevels, so a new literal is
\* given only to the calls that reach validateLogLevels.
ArgInputs(m, c) ==
    {NoArg} \cup {ExistingArg(r) : r \in 1..Len(heap)}
            \cup {LiteralArg(o) : o \in IF Log(m, c, <<>>).kind = "return"
                                        THEN LevelsInputs ELSE {}}

Next == \/ Idle /\ \E m \in ModuleNameArgs, c \in ComponentArgs :
                      \E a \in ArgInputs(m, c) : NewLog(m, c, a)
        \/ Idle /\ \E i \in 1..Len(logs), m \in ModuleNameArgs, c \in ComponentArgs :
                      createLog(i, m, c)
        \/ Idle /\ \E i \in 1..Len(logs), l \in LevelsInputs : setLevels(i, l)
        \/ Idle /\ \E i \in 1..Len(logs), r \in RankInputs : Call_log(i, r)
        \/ Idle /\ \E i \in 1..Len(logs), fn \in {"debug", "info", "warn", "error"} :
                      Wrapper(i, fn)
        \/ Idle /\ \E i \in 1..Len(logs), e \in ErrorInputs : throwFn(i, e)
        \/ Idle /\ \E n \in NameInputs : Call_getLevelByName(n)
        \/ Resume

Spec == Init /\ [][Next]_vars

(***************************************************************************)
(* What the properties are stated against: the documented ranks of the     *)
(* level names, written out for the strings of the model, independently    *)
(* of toUpperCase and of LOG_LEVELS_SET.                                   *)
(***************************************************************************)
\* The rank of a level name, -1 for a value that is no level name.
RankOfName(v) == CASE v = Str(S_debug) -> 0
                   [] v = Str(S_DEBUG) -> 0
                   [] v = Str(S_InFo) -> 1
                   [] v = Str(S_warn) -> 2
                   [] v = Str(S_ERROR) -> 3
                   [] v = Str(S_Off) -> 4
                   [] OTHER -> 0 - 1

IsLevelName(v) == RankOfName(v) >= 0

\* The sink of a rank.
SinkOfRank(rank) == CASE rank = 0 -> "console.log"
                      [] rank = 1 -> "console.info"
                      [] rank = 2 -> "console.warn"
                      [] rank = 3 -> "console.error"
                      [] rank = 4 -> "noop"

\* A numeric level: a number, or a string that spells one.
IsNumericLevel(v) == v.t = "num" \/ v \in {Str(S_99), Str(<<"2">>), Str(<<"-","1">>)}

\* The integer a numeric level stands for.
IntegerOf(v) == CASE v.t = "num" -> v.n
                  [] v = Str(S_99) -> 99
                  [] v = Str(<<"2">>) -> 2
                  [] v = Str(<<"-","1">>) -> 0 - 1

Entries(o) == {o[i] : i \in 1..Len(o)}

InvalidArgumentError(result) == result.kind = "throw" /\ result.err.name = "INVALID_ARGUMENT"

LogOps == {"log", "debug", "info", "warn", "error"}

\* What instance i reads as its level, through the getter.
EffectiveLevel(i) == logLevel(heap[logs[i].levels], logs[i].moduleName)

\* What instance i should read: the rank of the table's entry for its module
\* name, and the rank of the default level when it has no module name or
\* the table no entry.
ExpectedLevel(i) ==
    IF logs[i].moduleName.t = "str" /\ \E e \in Entries(heap[logs[i].levels]) : e[1] = logs[i].moduleName.k
    THEN RankOfName((CHOOSE e \in Entries(heap[logs[i].levels]) : e[1] = logs[i].moduleName.k)[2])
    ELSE RankOfName(DEFAULT_LOG_LEVEL)

BadConstructorArgs(moduleName, component) ==
    component = NoComponent \/ moduleName = NumberAsModuleName

(***************************************************************************)
(* C1.  Every instance derived, directly or transitively, from one root    *)
(* holds the root's level table, and after a successful setLevels through  *)
(* any instance every relative whose module name is a key of the update    *)
(* reads the rank of the update's value as its effective level.            *)
(***************************************************************************)
C1_SharedLevelTable ==
    /\ \A i, j \in 1..Len(logs) : logs[i].root = logs[j].root => logs[i].levels = logs[j].levels
    /\ (last.op = "setLevels" /\ last.result.kind = "return") =>
          \A j \in 1..Len(logs) : \A e \in Entries(last.levels) :
              (logs[j].root = logs[last.inst].root /\ logs[j].moduleName = ModuleName(e[1]))
                  => EffectiveLevel(j) = Return(Num(RankOfName(e[2])))

\* A child sets {media: Off}: its parent and its sibling, both scoped to
\* media, read OFF, while another root keeps its own table.
C1_Witness ==
    /\ Len(logs) = 3 /\ last.op = "setLevels" /\ last.result.kind = "return"
    /\ last.inst = 2 /\ logs[2].root = 1 /\ logs[3].root = 1
    /\ logs[1].moduleName = ModuleName("media") /\ logs[3].moduleName = ModuleName("media")
    /\ <<"media", Str(S_Off)>> \in Entries(last.levels)
    /\ EffectiveLevel(1) = Return(Num(Log_OFF)) /\ EffectiveLevel(3) = Return(Num(Log_OFF))

(***************************************************************************)
(* C2.  setLevels with at least one entry that is no level name fails with *)
(* the invalid-argument error and leaves the shared table as it was.       *)
(***************************************************************************)
C2_AllOrNothing ==
    [][(last'.op = "setLevels" /\ \E e \in Entries(last'.levels) : ~IsLevelName(e[2]))
         => (InvalidArgumentError(last'.result) /\ heap' = heap)]_vars

\* The part of C2 that holds: a setLevels that fails, with whatever error,
\* changes no table, and one given an entry that is no level name fails.
C2_FailureChangesNothing ==
    [][last'.op = "setLevels" =>
         /\ (\E e \in Entries(last'.levels) : ~IsLevelName(e[2])) => last'.result.kind = "throw"
         /\ last'.result.kind = "throw" => heap' = heap]_vars

(***************************************************************************)
(* C3.  log, and each wrapper, called with one of the five ranks makes     *)
(* exactly one call, to the sink of that rank, when the instance's         *)
(* effective level is at most the rank, and no call when it is greater;    *)
(* both ways it returns the instance.                                      *)
(***************************************************************************)
C3_LogGate ==
    (last.op \in LogOps /\ last.rank \in 0..4) =>
        /\ EffectiveLevel(last.inst).kind = "return"
        /\ EffectiveLevel(last.inst).val.t = "num"
        /\ last.result = Return(LogRef(last.inst))
        /\ EffectiveLevel(last.inst).val.n <= last.rank =>
              /\ Len(last.calls) = 1
              /\ last.calls[1].logFn = SinkOfRank(last.rank)
        /\ EffectiveLevel(last.inst).val.n > last.rank => last.calls = <<>>

\* warn() on an instance whose level is WARN: one call of console.warn.
C3_Witness ==
    /\ last.op = "warn" /\ EffectiveLevel(last.inst) = Return(Num(Log_WARN))
    /\ Len(last.calls) = 1 /\ last.calls[1].logFn = "console.warn"

(***************************************************************************)
(* C4.  As claimed: throw always raises after exactly one message went to  *)
(* the ERROR sink, whatever the level; the raised error is the clone with  *)
(* the custom message when the error has clone(), the error itself when    *)
(* it has not.                                                             *)
(***************************************************************************)
ExpectedThrown(error) ==
    IF error.hasClone THEN [error EXCEPT !.message = "custom", !.isClone = TRUE] ELSE error

C4_Original ==
    last.op = "throw" =>
        /\ last.result = Throw(ExpectedThrown(last.error))
        /\ Len(last.calls) = 1
        /\ last.calls[1].logFn = "console.error"

(***************************************************************************)
(* C4, amended.  throw always raises, the clone with the custom message    *)
(* or the error itself, after one call of log at rank ERROR: one message   *)
(* carrying that error goes to the ERROR sink when the effective level is  *)
(* at most ERROR, and none when it is OFF.                                 *)
(***************************************************************************)
C4_ThrowLogsThroughGate ==
    last.op = "throw" =>
        /\ last.result = Throw(ExpectedThrown(last.error))
        /\ ExpectedLevel(last.inst) <= 3 =>
              /\ Len(last.calls) = 1
              /\ last.calls[1].logFn = "console.error"
              /\ last.calls[1].message = ErrorMessage(ExpectedThrown(last.error))
        /\ ExpectedLevel(last.inst) > 3 => last.calls = <<>>

\* A TwilioError thrown through an instance at level WARN.
C4_Witness ==
    /\ last.op = "throw" /\ last.error = TwilioError
    /\ ExpectedLevel(last.inst) = 2
    /\ Len(last.calls) = 1
    /\ last.result.kind = "throw" /\ last.result.err.message = "custom"

(***************************************************************************)
(* C5.  log with a rank that has no descriptor fails with the              *)
(* invalid-argument error "Invalid log level" and calls no sink, whatever  *)
(* the instance's effective level.                                         *)
(***************************************************************************)
C5_InvalidRank ==
    (last.op = "log" /\ last.rank \notin 0..4) =>
        /\ last.result = Throw(INVALID_ARGUMENT("Invalid log level"))
        /\ last.calls = <<>>

\* Rank -1 on an instance at level WARN, which is above the rank.
C5_Witness ==
    /\ last.op = "log" /\ last.rank = 0 - 1
    /\ ExpectedLevel(last.inst) = 2
    /\ InvalidArgumentError(last.result)

C7_GetLevelByName ==
    last.op = "getLevelByName" =>
        last.result = IF IsLevelName(last.name) THEN Return(Num(RankOfName(last.name)))
                      ELSE IF IsNumericLevel(last.name) THEN Return(Num(IntegerOf(last.name)))
                      ELSE Throw(INVALID_ARGUMENT(INVALID_LOG_LEVEL_MESSAGE))

\* The part of C7 that holds: every input but the empty string.
C7_ExceptEmptyString ==
    (last.op = "getLevelByName" /\ last.name # Str(<<>>)) =>
        last.result = IF IsLevelName(last.name) THEN Return(Num(RankOfName(last.name)))
                      ELSE IF IsNumericLevel(last.name) THEN Return(Num(IntegerOf(last.name)))
                      ELSE Throw(INVALID_ARGUMENT(INVALID_LOG_LEVEL_MESSAGE))

(***************************************************************************)
(* C8.  As claimed: a construction or a setLevels whose only fault is an   *)
(* out-of-range numeric level among its entries succeeds and stores it.    *)
(***************************************************************************)
HasNumericEntry(o) == \E e \in Entries(o) : IsNumericLevel(e[2])

OnlyNumericFaults(o) == \A e \in Entries(o) : IsLevelName(e[2]) \/ IsNumericLevel(e[2])

C8_Original ==
    (/\ last.op \in {"Log", "setLevels"}
     /\ ~BadConstructorArgs(last.moduleName, last.component) \/ last.op = "setLevels"
     /\ HasNumericEntry(last.levels) /\ OnlyNumericFaults(last.levels))
        => (/\ last.result.kind = "return"
            /\ \E i \in 1..Len(heap) : HasNumericEntry(heap[i]))

(***************************************************************************)
(* C8, amended.  An out-of-range numeric level, as a number or as a        *)
(* numeric string, is rejected at configuration time: the construction or  *)
(* the setLevels given it fails, no table ever holds it, and so no         *)
(* instance reads a level outside 0..4.                                    *)
(***************************************************************************)
C8_NumericLevelRejected ==
    /\ (last.op \in {"Log", "createLog", "setLevels"} /\ HasNumericEntry(last.levels))
          => last.result.kind = "throw"
    /\ \A i \in 1..Len(heap) : ~HasNumericEntry(heap[i])
    /\ \A i \in 1..Len(logs) : /\ EffectiveLevel(i).kind = "return"
                               /\ EffectiveLevel(i).val.t = "num"
                               /\ EffectiveLevel(i).val.n \in 0..4

\* setLevels({media: "Off", signaling: 99}) fails and media is not set.
C8_Witness ==
    /\ last.op = "setLevels" /\ last.result.kind = "throw"
    /\ last.levels = << <<"media", Str(S_Off)>>, <<"signaling", Num(99)>> >>
    /\ ~HasOwn(heap[logs[last.inst].levels], "media")

(***************************************************************************)
(* C9.  A constructor call, direct or through createLog, without a         *)
(* component or with a truthy module name that is no string fails with     *)
(* the invalid-argument error, produces no instance and changes no table;  *)
(* a createLog that succeeds leaves its parent, the other instances and    *)
(* the tables as they were.                                                *)
(***************************************************************************)
C9_ConstructionFailsFast ==
    [][/\ (last'.op \in {"Log", "createLog"}
             /\ BadConstructorArgs(last'.moduleName, last'.component))
          => (InvalidArgumentError(last'.result) /\ logs' = logs /\ heap' = heap)
       /\ last'.op = "createLog"
          => (heap' = heap /\ SubSeq(logs', 1, Len(logs)) = logs)]_vars

\* createLog without a component on the root of a table that holds an entry.
C9_Witness ==
    /\ last.op = "createLog" /\ last.component = NoComponent
    /\ last.moduleName = ModuleName("media")
    /\ InvalidArgumentError(last.result)
    /\ Len(logs) = 1 /\ Len(heap[1]) > 0

====
